---- MODULE Spec2Model ----
(***************************************************************************)
(* Model of deploy/runtools/firesim_topology_with_passes.py.               *)
(*                                                                         *)
(* Spec      : the manager process: it constructs a                        *)
(*             FireSimTopologyWithPasses (__init__ runs phase_one_passes), *)
(*             then runs one entry point on it (infrasetup_passes,         *)
(*             boot_simulation_passes, kill_simulation_passes or           *)
(*             run_workload_passes) against a fleet of hosts; every        *)
(*             fabric execute() is a parallel batch, one worker per host,  *)
(*             joined before the manager goes on.                          *)
(* PassSpec  : the construction of the object: __init__ runs               *)
(*             phase_one_passes over a topology, a run farm inventory and  *)
(*             a choice of mapper.                                         *)
(* DirectSpec: the passes called one by one on an object whose             *)
(*             constructor has not run them, in any order.                 *)
(* MapSpec   : pass_perform_host_node_mapping called once on such an       *)
(*             object, over the topologies, the run farm inventories and   *)
(*             the mappers.                                                *)
(* StrategySpec: one of the three mapping strategies called once on such   *)
(*             an object.                                                  *)
(* StrategyAsIsSpec: the same calls in the module as it stands.            *)
(*                                                                         *)
(* The module imports AWSEC2F1 and FPGAInst under TYPE_CHECKING only       *)
(* (lines 20-24), so its namespace does not hold them at run time: the     *)
(* statements that evaluate them (lines 195, 213, 244, 268, 269, 508)      *)
(* raise NameError. awsec2f1 = "unbound" is the module as it stands; the   *)
(* other two values are the module in a process that has defined the two   *)
(* names in its namespace, which is where the constructor returns an       *)
(* object for the entry points to run on.                                  *)
(***************************************************************************)
EXTENDS Integers, Sequences, FiniteSets, TLC

\* ------------------------------------------------------------------ bounds
NumHosts == 2
NumSims  == 2
MaxTicks == 2
MaxRoots == 2
MaxNodes == 3
MaxFarm == 2
MaxDirect == 2
MaxCap == 2

Hosts == 1..NumHosts
Sims  == 1..NumSims

\* ---------------------------------------------------------------- helpers
RECURSIVE SeqsUpTo(_, _)
SeqsUpTo(S, n) ==
    IF n = 0 THEN {<<>>}
    ELSE LET shorter == SeqsUpTo(S, n - 1)
         IN  shorter \cup {Append(q, x) : q \in {r \in shorter : Len(r) = n - 1}, x \in S}

Range(q) == {q[i] : i \in 1..Len(q)}

Count(q, P(_)) == Cardinality({i \in 1..Len(q) : P(q[i])})

\* a step of the manager: the callee's name and its one relevant argument
S(k, a) == [k |-> k, a |-> a]

VARIABLES
    entry,              \* the entry point this run of the manager executes
    use_mock,           \* use_mock_instances_for_testing
    roots,              \* firesimtopol.roots, the kind of each root node
    has_hook,           \* workload.post_run_hook is not None
    pc,                 \* "run", "returned" or "aborted" (exception propagated)
    todo,               \* the manager's remaining steps (its continuation)
    trace,              \* the steps the manager has started, in order
    cur,                \* the execute() batch in flight, or NoBatch
    pending,            \* hosts whose worker of that batch has not finished
    failed,             \* hosts whose worker of that batch failed
    ran,                \* per host, the remote operations started on it
    finished,           \* per host, the remote operations that succeeded on it
    instancestates,     \* per host that answered, its 'sims' completion map
    jobs_complete_dict, \* the status aggregated on the last tick
    loop_state,         \* the monitor loop: NOT_STARTED/RUNNING/TEARDOWN_REQUESTED/DONE
    completed,          \* simulations whose job has finished (host side)
    screens_up,         \* hosts that still list a simulation/switch screen session
    screen_ls,          \* per host, what "screen -ls" prints on it to the polls of the
                        \* screens batch in flight: the AutoILA sessions listed and the
                        \* number of simulation/switch sessions listed
    log_to_file,        \* rootLogger.handlers[0] is a logging.FileHandler
    \* --- the topology compilation (the passes)
    topo,               \* firesimtopol: kind and uplink of every node
    farm,               \* run_farm.get_all_host_nodes(): the slot capacity of every host
    custom_mapper,      \* firesimtopol.custom_mapper
    user_hwcfg,         \* servers whose topology names a hardware config
    user_netp,          \* nodes whose topology sets a network parameter
    awsec2f1,           \* what isinstance(self.run_farm, AWSEC2F1) does: "unbound"
                        \* (NameError), "is" (True) or "is_not" (False)
    ppc,                \* "fresh", "running", "idle" or "raised"
    ptodo,              \* the passes the running call still has to run
    in_init,            \* the running call is __init__'s phase_one_passes
    constructed,        \* __init__ has returned
    ndirect,            \* passes called directly on the object so far
    calls,              \* the passes __init__ has started, in order
    error,              \* the exception that left the last call
    passes_used,        \* self.passes_used
    next_mac,           \* MacAddress.next_mac_to_allocate()
    mac,                \* per server, its assigned address
    downlinkmacs,       \* per node, node.downlinkmacs
    switch_table,       \* per switch, switch.switch_table
    fpga_slots,         \* per host, the simulations added to it
    switch_slots,       \* per host, the switches added to it
    host_instance,      \* per node, the host last assigned to it (0: none)
    mapped_by,          \* the mapping strategies run, in order
    hwcfg,              \* per server, its hardware config field
    triplet_calls,      \* per config object, the calls of get_deploytriplet_for_config
                        \* and the builds of the triplet they caused
    netp,               \* per node and field, where the parameter comes from
    job,                \* per server, its assigned job
    nbds                \* servers whose NBD devices are allocated

ovars == <<entry, use_mock, roots, has_hook, pc, todo, trace, cur, pending, failed,
           ran, finished, instancestates, jobs_complete_dict, loop_state, completed, screens_up,
           screen_ls, log_to_file>>

pinputs == <<topo, farm, custom_mapper, user_hwcfg, user_netp, awsec2f1>>

pvars == <<pinputs, ppc, ptodo, in_init, constructed, ndirect, calls, error, passes_used,
           next_mac, mac, downlinkmacs, switch_table, fpga_slots, switch_slots,
           host_instance, mapped_by, hwcfg, triplet_calls, netp, job, nbds>>

vars == <<ovars, pvars>>

inputs == <<entry, use_mock, roots, has_hook, log_to_file, pvars>>

NoBatch == S("none", FALSE)
EmptyDict == [s \in {} |-> FALSE]

\* ------------------------------------------------------- the program text
RemoteOps == {"instance_liveness", "infrasetup_node_wrapper", "boot_switch_wrapper",
              "boot_simulation_wrapper", "kill_switch_wrapper",
              "kill_simulation_wrapper", "screens", "monitor_jobs_wrapper"}

BindOps == {"post_launch_binding", "bind_mock_instances_to_objects",
            "bind_real_instances_to_objects"}

\* local steps that run an external command or build and may fail
FallibleLocal == {"mkdir", "post_run_hook", "pass_build_required_drivers",
                  "pass_build_required_switches"}

\* the setup, boot and kill work done on a host
WorkOps == {"infrasetup_node_wrapper", "boot_switch_wrapper", "boot_simulation_wrapper",
            "kill_switch_wrapper", "kill_simulation_wrapper"}

\* the two names imported at run time, outside the TYPE_CHECKING block
M_names_bound == TRUE

\* AWSEC2F1 and FPGAInst are names of the module's namespace at run time
names_bound == awsec2f1 # "unbound"

\* isinstance(self.run_farm, AWSEC2F1), where the name is bound
run_farm_is_AWSEC2F1 == awsec2f1 = "is"

post_launch_binding(mock) == <<S("post_launch_binding", mock)>>

infrasetup_passes(mock) ==
    post_launch_binding(mock)
    \o <<S("pass_build_required_drivers", FALSE), S("pass_build_required_switches", FALSE),
         S("instance_liveness", FALSE), S("infrasetup_node_wrapper", FALSE)>>

\* the simulations booted before the switches
M_boot_simulation_passes(mock, skip_instance_binding) ==
    (IF ~skip_instance_binding THEN post_launch_binding(mock) ELSE <<>>)
    \o <<S("instance_liveness", FALSE), S("boot_simulation_wrapper", FALSE),
         S("boot_switch_wrapper", FALSE)>>

boot_simulation_passes(mock, skip_instance_binding) ==
    (IF ~skip_instance_binding THEN post_launch_binding(mock) ELSE <<>>)
    \o <<S("instance_liveness", FALSE), S("boot_switch_wrapper", FALSE),
         S("boot_simulation_wrapper", FALSE)>>

\* the simulations killed before the switches
M_kill_simulation_passes(mock, disconnect_all_nbds) ==
    post_launch_binding(mock)
    \o <<S("kill_simulation_wrapper", disconnect_all_nbds),
         S("kill_switch_wrapper", FALSE),
         S("screens", FALSE)>>

kill_simulation_passes(mock, disconnect_all_nbds) ==
    post_launch_binding(mock)
    \o <<S("kill_switch_wrapper", FALSE),
         S("kill_simulation_wrapper", disconnect_all_nbds),
         S("screens", FALSE)>>

\* one iteration of the polling loop up to the decision
LoopBody ==
    <<S("get_jobs_completed_local_info", FALSE), S("monitor_jobs_wrapper", FALSE),
      S("loop_logger", FALSE), S("decide", FALSE)>>

\* lines 508-512: the test of line 508 raises NameError where AWSEC2F1 is not bound
bind_instances(mock) ==
    IF ~names_bound THEN <<S("NameError", FALSE)>>
    ELSE IF run_farm_is_AWSEC2F1
    THEN <<S(IF mock THEN "bind_mock_instances_to_objects"
                     ELSE "bind_real_instances_to_objects", mock)>>
    ELSE <<>>

run_workload_passes(mock) ==
    bind_instances(mock)
    \o <<S("mkdir", FALSE)>>
    \o boot_simulation_passes(FALSE, TRUE)
    \o <<S("enter_loop", FALSE)>>
    \o LoopBody

\* the teardown branch of the loop
TeardownBranch(mock) ==
    kill_simulation_passes(mock, FALSE)
    \o <<S("get_jobs_completed_local_info", FALSE), S("monitor_jobs_wrapper", TRUE),
         S("break", FALSE)>>

AfterLoop(hook) ==
    (IF hook THEN <<S("post_run_hook", FALSE)>> ELSE <<>>)
    \o <<S("log_exited_successfully", FALSE)>>

teardown_required == roots[1] = "switch"

EntrySteps(e, mock) ==
    CASE e = "infrasetup"  -> infrasetup_passes(mock)
      [] e = "boot"        -> boot_simulation_passes(mock, FALSE)
      [] e = "kill"        -> kill_simulation_passes(mock, TRUE)
      [] e = "runworkload" -> run_workload_passes(mock)

\* ------------------------------------------------------------- host side
\* the sessions of the AutoILA server
AutoILA == {"hw_server", "virtual_jtag"}

NoSessions == [ila |-> {}, n |-> 0]

\* what a host may list to the polls. The sessions are the host's own,
\* started outside this module; line 495 tests the count and each of the two
\* AutoILA names by itself, so the listings differ in them: no AutoILA
\* session, hw_server alone or both; where simulation/switch sessions are
\* up, one of them, or ten beside the two of AutoILA (twelve sockets)
Listings(up) ==
    IF up
    THEN {[ila |-> {}, n |-> 1], [ila |-> {"hw_server"}, n |-> 1], [ila |-> AutoILA, n |-> 10]}
    ELSE {[ila |-> {}, n |-> 0], [ila |-> {"hw_server"}, n |-> 0], [ila |-> AutoILA, n |-> 0]}

\* the number "screen -ls" prints before "Sockets in" ("Socket in" for one)
Sockets(ls) == Cardinality(ls.ila) + ls.n

\* the exit tests of screens(), lines 495-499: "2 Sockets in" is a substring
\* of the output whenever the number of sockets ends in the digit 2
screens_done(ls) ==
    \/ /\ Sockets(ls) >= 2 /\ Sockets(ls) % 10 = 2
       /\ "hw_server" \in ls.ila /\ "virtual_jtag" \in ls.ila
    \/ Sockets(ls) = 0
SimHost(s) == ((s - 1) % NumHosts) + 1
SimsOn(h) == {s \in Sims : SimHost(s) = h}

\* what monitor_jobs_instance reports for the simulations of host h
monitor_jobs_instance(h) == [s \in SimsOn(h) |-> s \in completed]

\* dict.update
Update(d, x) == [k \in DOMAIN d \cup DOMAIN x |-> IF k \in DOMAIN x THEN x[k] ELSE d[k]]

RECURSIVE UpdateAll(_, _)
UpdateAll(d, hs) ==
    IF hs = {} THEN d
    ELSE LET h == CHOOSE m \in hs : \A o \in hs : m <= o
         IN  UpdateAll(Update(d, instancestates[h]), hs \ {h})

AggregateStatus == UpdateAll(EmptyDict, DOMAIN instancestates)

any(d) == \E k \in DOMAIN d : d[k]
all(d) == \A k \in DOMAIN d : d[k]

\* ------------------------------------------------- topology compilation
Kinds == {"switch", "server", "dummy"}

\* a topology: the kind of every node and its uplink node (0 for a root);
\* the downlinks of a node are its children in index order; a dummy server
\* stands below a switch
Topologies ==
    {tp \in UNION {[kind : [1..k -> Kinds], parent : [1..k -> 0..(k - 1)]] : k \in 1..MaxNodes} :
        \A i \in DOMAIN tp.parent :
            /\ tp.parent[i] < i
            /\ tp.parent[i] # 0 => tp.kind[tp.parent[i]] = "switch"
            /\ tp.kind[i] = "dummy" => tp.parent[i] # 0}

Nodes == DOMAIN topo.kind
IsSwitch(n) == topo.kind[n] = "switch"
IsDummy(n)  == topo.kind[n] = "dummy"
\* FireSimDummyServerNode is a FireSimServerNode
IsServer(n) == topo.kind[n] \in {"server", "dummy"}

RECURSIVE Ascending(_)
Ascending(ns) ==
    IF ns = {} THEN <<>>
    ELSE LET m == CHOOSE x \in ns : \A y \in ns : x <= y
         IN  <<m>> \o Ascending(ns \ {m})

Downlinks(n) == Ascending({c \in Nodes : topo.parent[c] = n})
TopoRoots == Downlinks(0)

\* FireSimTopology.get_dfs_order: every node after its downlinks
RECURSIVE DfsOrder(_)
DfsOrder(ns) ==
    IF ns = <<>> THEN <<>>
    ELSE DfsOrder(Downlinks(Head(ns))) \o <<Head(ns)>> \o DfsOrder(Tail(ns))

get_dfs_order == DfsOrder(TopoRoots)
get_dfs_order_switches == SelectSeq(get_dfs_order, IsSwitch)
get_dfs_order_servers == SelectSeq(get_dfs_order, IsServer)

NoMac == -1
NoTable == <<NoMac>>

\* --------------------------------------------------------------- actions
IsMonitorFalse(st) == st = S("monitor_jobs_wrapper", FALSE)
Ticks == Count(trace, IsMonitorFalse)

\* a local statement of the manager completes
LocalOk ==
    /\ pc = "run" /\ cur = NoBatch /\ todo # <<>>
    /\ Head(todo).k \notin RemoteOps \cup {"decide", "NameError"}
    \* line 577: loop_logger asserts that the first log handler writes a file
    /\ Head(todo).k = "loop_logger" => log_to_file
    /\ trace' = Append(trace, Head(todo))
    /\ todo' = Tail(todo)
    /\ loop_state' = CASE Head(todo).k = "enter_loop" -> "RUNNING"
                       [] Head(todo).k = "break"      -> "DONE"
                       [] OTHER                       -> loop_state
    /\ UNCHANGED <<inputs, pc, cur, pending, failed, ran, finished, instancestates,
                   jobs_complete_dict, completed, screens_up, screen_ls>>

\* a local command or build fails and fabric aborts, or a local statement
\* raises: the exception propagates
LocalFail ==
    /\ pc = "run" /\ cur = NoBatch /\ todo # <<>>
    /\ \/ Head(todo).k \in FallibleLocal
       \/ Head(todo).k = "loop_logger" /\ ~log_to_file
       \/ Head(todo).k = "NameError"
    /\ trace' = IF Head(todo).k = "NameError" THEN trace ELSE Append(trace, Head(todo))
    /\ pc' = "aborted"
    /\ UNCHANGED <<inputs, todo, cur, pending, failed, ran, finished, instancestates,
                   jobs_complete_dict, loop_state, completed, screens_up, screen_ls>>

\* execute(task, hosts=all_runfarm_ips): fan out one worker per host
Dispatch ==
    /\ pc = "run" /\ cur = NoBatch /\ todo # <<>>
    /\ Head(todo).k \in RemoteOps
    /\ cur' = Head(todo)
    /\ pending' = Hosts
    /\ failed' = {}
    /\ trace' = Append(trace, Head(todo))
    /\ instancestates' = IF Head(todo).k = "monitor_jobs_wrapper" THEN <<>>
                         ELSE instancestates
    /\ screen_ls' \in IF Head(todo).k = "screens"
                      THEN {f \in [Hosts -> Listings(TRUE) \cup Listings(FALSE)] :
                              \A h \in Hosts : f[h] \in Listings(h \in screens_up)}
                      ELSE {screen_ls}
    /\ UNCHANGED <<inputs, pc, todo, ran, finished, jobs_complete_dict, loop_state,
                   completed, screens_up>>

\* the worker of host h runs the batch's task to the end
HostOk(h) ==
    /\ pc = "run" /\ cur # NoBatch /\ h \in pending
    \* screens(): polls "screen -ls" every second until its output passes
    \* the test of line 495 or that of line 498
    /\ cur.k = "screens" => screens_done(screen_ls[h])
    /\ pending' = pending \ {h}
    /\ ran' = [ran EXCEPT ![h] = @ \cup {cur}]
    /\ finished' = [finished EXCEPT ![h] = @ \cup {cur}]
    /\ instancestates' = IF cur.k = "monitor_jobs_wrapper"
                         THEN (h :> monitor_jobs_instance(h)) @@ instancestates
                         ELSE instancestates
    /\ screens_up' = IF cur.k = "boot_simulation_wrapper" /\ SimsOn(h) # {}
                     THEN screens_up \cup {h}
                     ELSE screens_up
    /\ screen_ls' = screen_ls
    /\ UNCHANGED <<inputs, pc, todo, trace, cur, failed, jobs_complete_dict,
                   loop_state, completed>>

\* the worker of host h fails (host unreachable, remote command fails);
\* screens() runs under warn_only and cannot fail
HostFail(h) ==
    /\ pc = "run" /\ cur # NoBatch /\ h \in pending
    /\ cur.k # "screens"
    /\ pending' = pending \ {h}
    /\ failed' = failed \cup {h}
    /\ ran' = [ran EXCEPT ![h] = @ \cup {cur}]
    /\ UNCHANGED <<inputs, pc, todo, trace, cur, finished, instancestates, jobs_complete_dict,
                   loop_state, completed, screens_up, screen_ls>>

\* a failed worker only warns
M_ExecuteRaises == FALSE

\* whether execute() raises once every worker has been joined
ExecuteRaises == failed # {}

\* fan in: every worker succeeded, execute() returns
JoinOk ==
    /\ pc = "run" /\ cur # NoBatch /\ pending = {}
    /\ ~ExecuteRaises
    /\ cur' = NoBatch
    /\ todo' = Tail(todo)
    /\ screen_ls' = [h \in Hosts |-> NoSessions]
    /\ UNCHANGED <<inputs, pc, trace, pending, failed, ran, finished, instancestates,
                   jobs_complete_dict, loop_state, completed, screens_up>>

\* a failed batch is logged and the entry point goes on
M_JoinAbort ==
    /\ pc = "run" /\ cur # NoBatch /\ pending = {}
    /\ ExecuteRaises
    /\ cur' = NoBatch
    /\ todo' = Tail(todo)
    /\ UNCHANGED <<inputs, pc, trace, pending, failed, ran, finished, instancestates,
                   jobs_complete_dict, loop_state, completed, screens_up, screen_ls>>

\* fan in: some worker failed, execute() raises and the entry point is left
JoinAbort ==
    /\ pc = "run" /\ cur # NoBatch /\ pending = {}
    /\ ExecuteRaises
    /\ cur' = NoBatch
    /\ pc' = "aborted"
    /\ UNCHANGED <<inputs, todo, trace, pending, failed, ran, finished, instancestates,
                   jobs_complete_dict, loop_state, completed, screens_up, screen_ls>>

\* what the loop does after one status query
LoopDecision(status) ==
    IF teardown_required /\ any(status) THEN "teardown"
    ELSE IF ~teardown_required /\ all(status) THEN "break"
    ELSE "sleep"

TeardownCall == TeardownBranch(use_mock)

\* aggregate the per-host status and decide
Decide ==
    /\ pc = "run" /\ cur = NoBatch /\ todo # <<>>
    /\ Head(todo).k = "decide"
    /\ jobs_complete_dict' = AggregateStatus
    /\ LET d == LoopDecision(AggregateStatus) IN
         /\ d = "sleep" => Ticks < MaxTicks
         /\ todo' = CASE d = "teardown" -> TeardownCall \o AfterLoop(has_hook)
                      [] d = "break"    -> <<S("break", FALSE)>> \o AfterLoop(has_hook)
                      [] d = "sleep"    -> <<S("sleep", FALSE)>> \o LoopBody
         /\ loop_state' = IF d = "teardown" THEN "TEARDOWN_REQUESTED" ELSE loop_state
    /\ UNCHANGED <<inputs, pc, trace, cur, pending, failed, ran, finished, instancestates,
                   completed, screens_up, screen_ls>>

\* the entry point returns normally
Return ==
    /\ pc = "run" /\ cur = NoBatch /\ todo = <<>>
    /\ pc' = "returned"
    /\ UNCHANGED <<inputs, todo, trace, cur, pending, failed, ran, finished, instancestates,
                   jobs_complete_dict, loop_state, completed, screens_up, screen_ls>>

\* environment: the job of a booted simulation finishes
SimCompletes(s) ==
    /\ pc = "run" /\ loop_state = "RUNNING" /\ s \notin completed
    /\ S("boot_simulation_wrapper", FALSE) \in ran[SimHost(s)]
    /\ completed' = completed \cup {s}
    /\ UNCHANGED <<inputs, pc, todo, trace, cur, pending, failed, ran, finished, instancestates,
                   jobs_complete_dict, loop_state, screens_up, screen_ls>>

KillRan(h) == \E st \in ran[h] : st.k = "kill_simulation_wrapper"

\* environment: the killed sessions of host h exit
ScreensExit(h) ==
    /\ h \in screens_up /\ KillRan(h)
    /\ screens_up' = screens_up \ {h}
    /\ screen_ls' = [screen_ls EXCEPT ![h].n = 0]
    /\ UNCHANGED <<inputs, pc, todo, trace, cur, pending, failed, ran, finished, instancestates,
                   jobs_complete_dict, loop_state, completed>>


\* ------------------------------------------------------------ the passes
PassNames == {"pass_assign_mac_addresses", "pass_compute_switching_tables",
              "pass_perform_host_node_mapping", "pass_apply_default_hwconfig",
              "pass_apply_default_network_params", "pass_assign_jobs",
              "pass_allocate_nbd_devices", "pass_create_topology_diagram"}

phase_one_passes ==
    <<"pass_assign_mac_addresses", "pass_compute_switching_tables",
      "pass_perform_host_node_mapping", "pass_apply_default_hwconfig",
      "pass_apply_default_network_params", "pass_assign_jobs",
      "pass_allocate_nbd_devices", "pass_create_topology_diagram">>

\* the pass named p is the next statement of the running call
Running(p) ==
    /\ ppc = "running" /\ ptodo # <<>> /\ Head(ptodo) = p
    /\ calls' = IF in_init THEN Append(calls, p) ELSE calls

\* the pass returns
Returns ==
    /\ ptodo' = Tail(ptodo)
    /\ ppc' = IF Tail(ptodo) = <<>> THEN "idle" ELSE "running"
    /\ constructed' = (constructed \/ (in_init /\ Tail(ptodo) = <<>>))
    /\ in_init' = (in_init /\ Tail(ptodo) # <<>>)
    /\ error' = "none"

\* the pass raises e, which leaves the running call (and __init__)
Raises(e) ==
    /\ ppc' = "raised"
    /\ error' = e
    /\ UNCHANGED <<ptodo, in_init, constructed>>

\* FireSimTopologyWithPasses(...): the fields are set, then phase_one_passes()
Construct ==
    /\ ppc = "fresh"
    /\ ppc' = "running"
    /\ ptodo' = phase_one_passes
    /\ in_init' = TRUE
    /\ UNCHANGED <<ovars, pinputs, constructed, ndirect, calls, error, passes_used,
                   next_mac, mac, downlinkmacs, switch_table, fpga_slots, switch_slots,
                   host_instance, mapped_by, hwcfg, triplet_calls, netp, job, nbds>>

\* one pass called on the object by itself
DirectCall(p) ==
    /\ ppc \in {"fresh", "idle"} /\ ndirect < MaxDirect
    /\ ppc' = "running"
    /\ ptodo' = <<p>>
    /\ ndirect' = ndirect + 1
    /\ UNCHANGED <<ovars, pinputs, in_init, constructed, calls, error, passes_used,
                   next_mac, mac, downlinkmacs, switch_table, fpga_slots, switch_slots,
                   host_instance, mapped_by, hwcfg, triplet_calls, netp, job, nbds>>

\* the allocator hands the same address to every request
RECURSIVE M_AssignMacs(_, _, _)
M_AssignMacs(order, m, nxt) ==
    IF order = <<>> THEN [mac |-> m, next |-> nxt]
    ELSE IF IsServer(Head(order))
         THEN M_AssignMacs(Tail(order), [m EXCEPT ![Head(order)] = nxt], nxt)
         ELSE M_AssignMacs(Tail(order), m, nxt)

\* MacAddress.reset_allocator(), then one MacAddress() per server in DFS order
RECURSIVE AssignMacs(_, _, _)
AssignMacs(order, m, nxt) ==
    IF order = <<>> THEN [mac |-> m, next |-> nxt]
    ELSE IF IsServer(Head(order))
         THEN AssignMacs(Tail(order), [m EXCEPT ![Head(order)] = nxt], nxt + 1)
         ELSE AssignMacs(Tail(order), m, nxt)

pass_assign_mac_addresses ==
    /\ Running("pass_assign_mac_addresses")
    /\ passes_used' = Append(passes_used, "pass_assign_mac_addresses")
    /\ LET r == AssignMacs(get_dfs_order, mac, 0) IN
         /\ mac' = r.mac
         /\ next_mac' = r.next
    /\ Returns
    /\ UNCHANGED <<ovars, pinputs, ndirect, downlinkmacs, switch_table, fpga_slots,
                   switch_slots, host_instance, mapped_by, hwcfg, triplet_calls, netp, job, nbds>>

\* the dependency is not checked
M_MacsAssigned == TRUE

\* the assert at the head of pass_compute_switching_tables
MacsAssigned == "pass_assign_mac_addresses" \in Range(passes_used)

\* only the first downlink is advertised
M_Flatten(qs) == IF qs = <<>> THEN <<>> ELSE Head(qs)

RECURSIVE Flatten(_)
Flatten(qs) == IF qs = <<>> THEN <<>> ELSE Head(qs) \o Flatten(Tail(qs))

\* a): downlinkmacs of every node in DFS order; reduce() of an empty list
\* raises and ends the loop
RECURSIVE ComputeDownlinkMacs(_, _)
ComputeDownlinkMacs(order, dl) ==
    IF order = <<>> THEN [dl |-> dl, err |-> "none"]
    ELSE LET n == Head(order)
             ch == Downlinks(n)
         IN  IF IsServer(n)
             THEN ComputeDownlinkMacs(Tail(order), [dl EXCEPT ![n] = <<mac[n]>>])
             ELSE IF ch = <<>>
                  THEN [dl |-> dl, err |-> "TypeError"]
             ELSE ComputeDownlinkMacs(Tail(order),
                      [dl EXCEPT ![n] = Flatten([i \in 1..Len(ch) |-> dl[ch[i]]])])

Max(ns) == CHOOSE x \in ns : \A y \in ns : y <= x

\* the table is prepopulated with port 0
M_SwitchTable(n, dl) ==
    LET ch == Downlinks(n)
    IN  [a \in 1..next_mac |->
            LET ports == {p \in 1..Len(ch) : (a - 1) \in Range(dl[ch[p]])}
            IN  IF ports = {} THEN 0 ELSE Max(ports) - 1]

\* b): the table of switch n, one entry per allocated address (entry a + 1
\* for address a); a later port overwrites an earlier one
SwitchTable(n, dl) ==
    LET ch == Downlinks(n)
        uplinkportno == Len(ch)
    IN  [a \in 1..next_mac |->
            LET ports == {p \in 1..Len(ch) : (a - 1) \in Range(dl[ch[p]])}
            IN  IF ports = {} THEN uplinkportno ELSE Max(ports) - 1]

pass_compute_switching_tables ==
    /\ Running("pass_compute_switching_tables")
    /\ IF ~MacsAssigned
       THEN /\ Raises("AssertionError")
            /\ UNCHANGED <<passes_used, downlinkmacs, switch_table>>
       ELSE /\ passes_used' = Append(passes_used, "pass_compute_switching_tables")
            /\ LET r == ComputeDownlinkMacs(get_dfs_order, downlinkmacs) IN
                 /\ downlinkmacs' = r.dl
                 /\ IF r.err # "none"
                    THEN /\ Raises(r.err)
                         /\ UNCHANGED switch_table
                    ELSE /\ switch_table' =
                              [n \in Nodes |-> IF IsSwitch(n) THEN SwitchTable(n, r.dl)
                                               ELSE switch_table[n]]
                         /\ Returns
    /\ UNCHANGED <<ovars, pinputs, ndirect, next_mac, mac, fpga_slots, switch_slots,
                   host_instance, mapped_by, hwcfg, triplet_calls, netp, job, nbds>>

\* ---------------------------------------------------- host-node mapping
FarmHosts == 1..Len(farm)
run_farm_nodes == [h \in FarmHosts |-> h]
\* a host with accelerator slots; a host with none only runs switches
is_fpga_node(h) == farm[h] > 0
is_switch_node(h) == ~is_fpga_node(h)
get_num_fpga_slots_max(h) == farm[h]

\* list.sort(key=...): stable
RECURSIVE SortByKey(_, _)
SortByKey(q, key) ==
    IF q = <<>> THEN <<>>
    ELSE LET front == SortByKey(SubSeq(q, 1, Len(q) - 1), key)
             x == q[Len(q)]
             k == Cardinality({i \in 1..Len(front) : key[front[i]] <= key[x]})
         IN  SubSeq(front, 1, k) \o <<x>> \o SubSeq(front, k + 1, Len(front))

\* the mapping held by the hosts and the nodes
MapState == [fs |-> fpga_slots, ss |-> switch_slots, hi |-> host_instance]

add_simulation(ms, h, n) == [ms EXCEPT !.fs[h] = Append(@, n), !.hi[n] = h]
add_switch(ms, h, n) == [ms EXCEPT !.ss[h] = Append(@, n), !.hi[n] = h]

\* pass_no_net_host_mapping, lines 199-205: hs the hosts left, k the slots
\* of the first one already used, idx the value of serverind
RECURSIVE NoNetFill(_, _, _, _, _)
NoNetFill(hs, k, idx, servers, ms) ==
    IF hs = <<>>
    THEN [ms |-> ms, err |-> IF idx = Len(servers) THEN "none" ELSE "AssertionError"]
    ELSE IF k = get_num_fpga_slots_max(Head(hs))
    THEN NoNetFill(Tail(hs), 0, idx, servers, ms)
    ELSE IF idx >= Len(servers)
    THEN [ms |-> ms, err |-> "IndexError"]
    ELSE LET ms2 == add_simulation(ms, Head(hs), servers[idx + 1])
         IN  IF idx + 1 = Len(servers)
             THEN [ms |-> ms2, err |-> "none"]
             ELSE NoNetFill(hs, k + 1, idx + 1, servers, ms2)

\* line 195: cast(List[FPGAInst], ...) evaluates FPGAInst
pass_no_net_host_mapping(ms) ==
    IF ~names_bound THEN [ms |-> ms, err |-> "NameError"] ELSE
    LET fpga_nodes == SortByKey(SelectSeq(run_farm_nodes, is_fpga_node),
                                [h \in FarmHosts |-> 0 - get_num_fpga_slots_max(h)])
    IN  NoNetFill(fpga_nodes, 0, 0, get_dfs_order_servers, ms)

RECURSIVE AddAll(_, _, _)
AddAll(ms, h, servers) ==
    IF servers = <<>> THEN ms
    ELSE AddAll(add_simulation(ms, h, Head(servers)), h, Tail(servers))

\* lines 223-225: every switch-only host that holds no switch takes the switch
RECURSIVE SwitchOfSwitches(_, _, _)
SwitchOfSwitches(hs, sw, ms) ==
    IF hs = <<>> THEN ms
    ELSE IF Len(ms.ss[Head(hs)]) = 0
         THEN SwitchOfSwitches(Tail(hs), sw, add_switch(ms, Head(hs), sw))
         ELSE SwitchOfSwitches(Tail(hs), sw, ms)

\* lines 229-234: every empty accelerator host that is large enough takes the
\* switch and its servers
RECURSIVE SwitchOfServers(_, _, _, _)
SwitchOfServers(hs, sw, downlinknodes, ms) ==
    IF hs = <<>> THEN ms
    ELSE IF /\ Len(ms.fs[Head(hs)]) = 0
            /\ get_num_fpga_slots_max(Head(hs)) >= Len(downlinknodes)
         THEN SwitchOfServers(Tail(hs), sw, downlinknodes,
                  AddAll(add_switch(ms, Head(hs), sw), Head(hs), downlinknodes))
         ELSE SwitchOfServers(Tail(hs), sw, downlinknodes, ms)

NotDummy(n) == ~IsDummy(n)

RECURSIVE SimpleNetworked(_, _, _, _)
SimpleNetworked(switches, switch_nodes, fpga_nodes, ms) ==
    IF switches = <<>> THEN [ms |-> ms, err |-> "none"]
    ELSE LET sw == Head(switches)
             alldownlinknodes == SelectSeq(Downlinks(sw), NotDummy)
         IN  IF \A i \in 1..Len(alldownlinknodes) : IsSwitch(alldownlinknodes[i])
             THEN SimpleNetworked(Tail(switches), switch_nodes, fpga_nodes,
                                  SwitchOfSwitches(switch_nodes, sw, ms))
             ELSE IF \A i \in 1..Len(alldownlinknodes) : IsServer(alldownlinknodes[i])
             THEN SimpleNetworked(Tail(switches), switch_nodes, fpga_nodes,
                                  SwitchOfServers(fpga_nodes, sw, alldownlinknodes, ms))
             ELSE [ms |-> ms, err |-> "AssertionError"]

\* line 213: cast(List[FPGAInst], ...) evaluates FPGAInst
pass_simple_networked_host_node_mapping(ms) ==
    IF ~names_bound THEN [ms |-> ms, err |-> "NameError"] ELSE
    SimpleNetworked(get_dfs_order_switches,
                    SelectSeq(run_farm_nodes, is_switch_node),
                    SortByKey(SelectSeq(run_farm_nodes, is_fpga_node),
                              [h \in FarmHosts |-> get_num_fpga_slots_max(h)]),
                    ms)

\* mapping_use_one_fpga_node, lines 246-255. alldownlinknodes is a map()
\* iterator: the all(...) of line 249 consumes it, so the loop of line 251
\* over the same iterator adds no server; bound tells whether an earlier
\* iteration has assigned the local downlinknodes that line 254 reads
RECURSIVE OneFpgaNode(_, _, _, _)
OneFpgaNode(switches, fpga_nodes, bound, ms) ==
    IF switches = <<>> THEN [ms |-> ms, err |-> "none"]
    ELSE IF fpga_nodes = <<>> THEN [ms |-> ms, err |-> "IndexError"]
    ELSE LET sw == Head(switches)
             ms2 == add_switch(ms, fpga_nodes[1], sw)
             ch == Downlinks(sw)
         IN  IF \A i \in 1..Len(ch) : IsServer(ch[i])
             THEN OneFpgaNode(Tail(switches), fpga_nodes, TRUE, ms2)
             ELSE IF ~bound
             THEN [ms |-> ms2, err |-> "UnboundLocalError"]
             ELSE OneFpgaNode(Tail(switches), fpga_nodes, bound, ms2)

\* line 244: cast(List[FPGAInst], ...) evaluates FPGAInst
mapping_use_one_fpga_node(ms) ==
    IF ~names_bound THEN [ms |-> ms, err |-> "NameError"] ELSE
    OneFpgaNode(get_dfs_order_switches, SelectSeq(run_farm_nodes, is_fpga_node), FALSE, ms)

Mappers == {"None", "callable", "pass_no_net_host_mapping",
            "pass_simple_networked_host_node_mapping", "mapping_use_one_fpga_node",
            "no_such_method", "improper"}

\* the strategy pass_perform_host_node_mapping runs, lines 270-292
SelectedMapper ==
    IF custom_mapper = "None"
    THEN IF \A i \in 1..Len(TopoRoots) : IsServer(TopoRoots[i])
         THEN "pass_no_net_host_mapping"
         ELSE "pass_simple_networked_host_node_mapping"
    ELSE custom_mapper

RunMapper(name, ms) ==
    CASE name = "pass_no_net_host_mapping" -> pass_no_net_host_mapping(ms)
      [] name = "pass_simple_networked_host_node_mapping" ->
             pass_simple_networked_host_node_mapping(ms)
      [] name = "mapping_use_one_fpga_node" -> mapping_use_one_fpga_node(ms)
      \* the topology's own mapper function: its effect is not part of the model
      [] name = "callable" -> [ms |-> ms, err |-> "none"]
      [] name = "no_such_method" -> [ms |-> ms, err |-> "AttributeError"]
      [] OTHER -> [ms |-> ms, err |-> "AssertionError"]

Strategies == {"pass_no_net_host_mapping", "pass_simple_networked_host_node_mapping",
               "mapping_use_one_fpga_node"}

\* one of the three strategies called on the object by itself
mapping_strategy ==
    \E name \in Strategies :
      /\ Running(name)
      /\ LET r == RunMapper(name, MapState) IN
           /\ fpga_slots' = r.ms.fs
           /\ switch_slots' = r.ms.ss
           /\ host_instance' = r.ms.hi
           /\ mapped_by' = Append(mapped_by, name)
           /\ IF r.err = "none" THEN Returns ELSE Raises(r.err)
      /\ UNCHANGED <<ovars, pinputs, ndirect, passes_used, next_mac, mac, downlinkmacs,
                     switch_table, hwcfg, triplet_calls, netp, job, nbds>>

\* line 268 evaluates AWSEC2F1: NameError where the name is not bound, the
\* assertion's failure where the run farm is of another class
pass_perform_host_node_mapping ==
    /\ Running("pass_perform_host_node_mapping")
    /\ IF ~names_bound
       THEN /\ Raises("NameError")
            /\ UNCHANGED <<fpga_slots, switch_slots, host_instance, mapped_by>>
       ELSE IF ~run_farm_is_AWSEC2F1
       THEN /\ Raises("AssertionError")
            /\ UNCHANGED <<fpga_slots, switch_slots, host_instance, mapped_by>>
       ELSE LET r == RunMapper(SelectedMapper, MapState) IN
              /\ fpga_slots' = r.ms.fs
              /\ switch_slots' = r.ms.ss
              /\ host_instance' = r.ms.hi
              /\ mapped_by' = IF SelectedMapper \in {"no_such_method", "improper"}
                              THEN mapped_by ELSE Append(mapped_by, SelectedMapper)
              /\ IF r.err = "none" THEN Returns ELSE Raises(r.err)
    /\ UNCHANGED <<ovars, pinputs, ndirect, passes_used, next_mac, mac, downlinkmacs,
                   switch_table, hwcfg, triplet_calls, netp, job, nbds>>

\* ------------------------------------------------------ the later passes
NoCfg == [resolved |-> FALSE, name |-> "None"]
defaulthwconfig == "default_cfg"
HwNames == {"default_cfg", "user_cfg"}

\* hwdb.get_runtimehwconfig_from_name: the registry's object for the name
get_runtimehwconfig_from_name(name) == [resolved |-> TRUE, name |-> name]

\* the triplet is looked up and built on every call
M_get_deploytriplet_for_config(c) == [calls |-> c.calls + 1, builds |-> c.builds + 1]

\* RuntimeHWConfig.get_deploytriplet_for_config: the first call on a config
\* object builds the triplet and caches it, a later call returns the cache
get_deploytriplet_for_config(c) ==
    [calls |-> c.calls + 1, builds |-> IF c.builds = 0 THEN 1 ELSE c.builds]

\* lines 307-320 over the servers left
RECURSIVE ApplyHwConfig(_, _, _)
ApplyHwConfig(servers, hw, tc) ==
    IF servers = <<>> THEN [hw |-> hw, tc |-> tc]
    ELSE LET s == Head(servers)
             hw_cfg == IF hw[s] = NoCfg
                       THEN get_runtimehwconfig_from_name(defaulthwconfig)
                       ELSE IF ~hw[s].resolved
                       THEN get_runtimehwconfig_from_name(hw[s].name)
                       ELSE hw[s]
         IN  ApplyHwConfig(Tail(servers), [hw EXCEPT ![s] = hw_cfg],
                           [tc EXCEPT ![hw_cfg.name] = get_deploytriplet_for_config(@)])

pass_apply_default_hwconfig ==
    /\ Running("pass_apply_default_hwconfig")
    /\ LET r == ApplyHwConfig(get_dfs_order_servers, hwcfg, triplet_calls) IN
         /\ hwcfg' = r.hw
         /\ triplet_calls' = r.tc
    /\ Returns
    /\ UNCHANGED <<ovars, pinputs, ndirect, passes_used, next_mac, mac, downlinkmacs,
                   switch_table, fpga_slots, switch_slots, host_instance, mapped_by,
                   netp, job, nbds>>

\* the fields of lines 329-334 and of lines 337-365
SwitchFields == {"switch_link_latency", "switch_switching_latency", "switch_bandwidth"}
ServerFields == {"server_link_latency", "server_bw_max", "server_profile_interval",
                 "trace_enable", "trace_select", "trace_start", "trace_end",
                 "trace_output_format", "autocounter_readrate", "zerooutdram",
                 "disable_asserts", "print_start", "print_end", "print_cycle_prefix"}
NetFields(kind) == IF kind = "switch" THEN SwitchFields ELSE ServerFields
\* the field a user topology sets on a node it configures: its link latency
UserField(kind) == IF kind = "switch" THEN "switch_link_latency" ELSE "server_link_latency"

\* every field takes the default
M_pass_apply_default_network_params ==
    /\ Running("pass_apply_default_network_params")
    /\ netp' = [n \in Nodes |-> [f \in DOMAIN netp[n] |-> "default"]]
    /\ Returns
    /\ UNCHANGED <<ovars, pinputs, ndirect, passes_used, next_mac, mac, downlinkmacs,
                   switch_table, fpga_slots, switch_slots, host_instance, mapped_by,
                   hwcfg, triplet_calls, job, nbds>>

\* every network and tracing field of a node that is None takes the default
pass_apply_default_network_params ==
    /\ Running("pass_apply_default_network_params")
    /\ netp' = [n \in Nodes |->
                  [f \in NetFields(topo.kind[n]) |->
                      IF netp[n][f] = "None" THEN "default" ELSE netp[n][f]]]
    /\ Returns
    /\ UNCHANGED <<ovars, pinputs, ndirect, passes_used, next_mac, mac, downlinkmacs,
                   switch_table, fpga_slots, switch_slots, host_instance, mapped_by,
                   hwcfg, triplet_calls, job, nbds>>

NoJob == -1
\* workload.get_job(i)
get_job(i) == i

pass_assign_jobs ==
    /\ Running("pass_assign_jobs")
    /\ LET servers == get_dfs_order_servers IN
         job' = [n \in Nodes |->
                    IF \E i \in 1..Len(servers) : servers[i] = n
                    THEN get_job((CHOOSE i \in 1..Len(servers) : servers[i] = n) - 1)
                    ELSE job[n]]
    /\ Returns
    /\ UNCHANGED <<ovars, pinputs, ndirect, passes_used, next_mac, mac, downlinkmacs,
                   switch_table, fpga_slots, switch_slots, host_instance, mapped_by,
                   hwcfg, triplet_calls, netp, nbds>>

pass_allocate_nbd_devices ==
    /\ Running("pass_allocate_nbd_devices")
    /\ nbds' = nbds \cup Range(get_dfs_order_servers)
    /\ Returns
    /\ UNCHANGED <<ovars, pinputs, ndirect, passes_used, next_mac, mac, downlinkmacs,
                   switch_table, fpga_slots, switch_slots, host_instance, mapped_by,
                   hwcfg, triplet_calls, netp, job>>

\* graphviz is imported and renders the graph, or either step raises; the
\* pass has no try/except and neither has its caller
pass_create_topology_diagram ==
    /\ Running("pass_create_topology_diagram")
    /\ \E rendered \in BOOLEAN :
          IF rendered THEN Returns ELSE Raises("RenderError")
    /\ UNCHANGED <<ovars, pinputs, ndirect, passes_used, next_mac, mac, downlinkmacs,
                   switch_table, fpga_slots, switch_slots, host_instance, mapped_by,
                   hwcfg, triplet_calls, netp, job, nbds>>

\* ----------------------------------------------- compilation: Init, Next
Farms == SeqsUpTo(0..MaxCap, MaxFarm)

FirstServer(tp) == {n \in DOMAIN tp.kind :
                      /\ tp.kind[n] = "server"
                      /\ \A m \in DOMAIN tp.kind : tp.kind[m] = "server" => n <= m}

\* the manager runs no entry point
NoEntryPoint ==
    /\ entry = "none"
    /\ use_mock = FALSE
    /\ has_hook = FALSE
    /\ pc = "idle"
    /\ todo = <<>>
    /\ trace = <<>>
    /\ cur = NoBatch
    /\ pending = {}
    /\ failed = {}
    /\ ran = [h \in Hosts |-> {}]
    /\ finished = [h \in Hosts |-> {}]
    /\ instancestates = <<>>
    /\ jobs_complete_dict = EmptyDict
    /\ loop_state = "NOT_STARTED"
    /\ completed = {}
    /\ screens_up = {}
    /\ screen_ls = [h \in Hosts |-> NoSessions]
    /\ log_to_file = TRUE

\* the object after line 98 of __init__: the fields are set, no pass has run
FreshFields ==
    /\ roots = [i \in 1..Len(TopoRoots) |-> topo.kind[TopoRoots[i]]]
    /\ ppc = "fresh"
    /\ ptodo = <<>>
    /\ in_init = FALSE
    /\ constructed = FALSE
    /\ ndirect = 0
    /\ calls = <<>>
    /\ error = "none"
    /\ passes_used = <<>>
    /\ next_mac = 0
    /\ mac = [n \in Nodes |-> NoMac]
    /\ downlinkmacs = [n \in Nodes |-> <<>>]
    /\ switch_table = [n \in Nodes |-> NoTable]
    /\ fpga_slots = [h \in FarmHosts |-> <<>>]
    /\ switch_slots = [h \in FarmHosts |-> <<>>]
    /\ host_instance = [n \in Nodes |-> 0]
    /\ mapped_by = <<>>
    /\ hwcfg = [n \in Nodes |-> IF n \in user_hwcfg
                                THEN [resolved |-> FALSE, name |-> "user_cfg"] ELSE NoCfg]
    /\ triplet_calls = [c \in HwNames |-> [calls |-> 0, builds |-> 0]]
    /\ netp = [n \in Nodes |->
                 [f \in NetFields(topo.kind[n]) |->
                     IF n \in user_netp /\ f = UserField(topo.kind[n]) THEN "user" ELSE "None"]]
    /\ job = [n \in Nodes |-> NoJob]
    /\ nbds = {}

FreshObject ==
    /\ topo \in Topologies
    /\ user_hwcfg \in {{}, FirstServer(topo)}
    /\ user_netp \in {{}, {1}}
    /\ FreshFields

\* the module as it stands (lines 20-24), and the module in a process that
\* has defined the two names, with a run farm that is or is not an AWSEC2F1
BindingCases == {"unbound", "is", "is_not"}

PassInit ==
    /\ NoEntryPoint
    /\ farm \in Farms
    /\ custom_mapper \in Mappers
    /\ awsec2f1 \in BindingCases
    /\ FreshObject

Passes ==
    \/ pass_assign_mac_addresses
    \/ pass_compute_switching_tables
    \/ pass_perform_host_node_mapping
    \/ pass_apply_default_hwconfig
    \/ pass_apply_default_network_params
    \/ pass_assign_jobs
    \/ pass_allocate_nbd_devices
    \/ pass_create_topology_diagram

PassNext ==
    \/ Construct
    \/ Passes

\* the construction of a FireSimTopologyWithPasses
PassSpec == PassInit /\ [][PassNext]_vars

\* the passes called one by one on an object whose constructor ran none of them
DirectInit ==
    /\ NoEntryPoint
    /\ farm \in {f \in Farms : Len(f) <= 1}
    /\ custom_mapper = "None"
    /\ awsec2f1 = "unbound"
    /\ FreshObject

DirectNext ==
    \/ \E p \in PassNames : DirectCall(p)
    \/ Passes

DirectSpec == DirectInit /\ [][DirectNext]_vars

\* the mapping pass called once on an object whose constructor ran no pass
MapCall ==
    /\ ndirect = 0
    /\ DirectCall("pass_perform_host_node_mapping")

MapInit ==
    /\ NoEntryPoint
    /\ farm \in Farms
    /\ custom_mapper \in Mappers
    /\ awsec2f1 \in BindingCases
    /\ user_hwcfg = {}
    /\ user_netp = {}
    /\ FreshObject

MapNext ==
    \/ MapCall
    \/ pass_perform_host_node_mapping

MapSpec == MapInit /\ [][MapNext]_vars

\* one mapping strategy called once on an object whose constructor ran no pass
StrategyCall ==
    /\ ndirect = 0
    /\ \E name \in Strategies : DirectCall(name)

StrategyInit ==
    /\ NoEntryPoint
    /\ farm \in Farms
    /\ custom_mapper = "None"
    /\ awsec2f1 \in {"unbound", "is"}
    /\ user_hwcfg = {}
    /\ user_netp = {}
    /\ FreshObject

StrategyNext ==
    \/ StrategyCall
    \/ mapping_strategy

StrategySpec == StrategyInit /\ [][StrategyNext]_vars

\* the strategies called in the module as it stands (lines 20-24)
StrategyAsIsInit ==
    /\ StrategyInit
    /\ awsec2f1 = "unbound"

StrategyAsIsSpec == StrategyAsIsInit /\ [][StrategyNext]_vars

\* ------------------------------------------------- the manager: Init, Next
\* the topology of a run: a server below every root switch
OrchTopology(rs) ==
    LET sw == SelectSeq([i \in 1..Len(rs) |-> i], LAMBDA i : rs[i] = "switch")
    IN  [kind |-> rs \o [j \in 1..Len(sw) |-> "server"],
         parent |-> [i \in 1..Len(rs) |-> 0] \o sw]

EntryPoints == {"infrasetup", "boot", "kill", "runworkload"}

\* the manager is started: the object is not constructed yet
Init ==
    /\ NoEntryPoint
    /\ topo \in {OrchTopology(rs) : rs \in (SeqsUpTo({"switch", "server"}, MaxRoots) \ {<<>>})}
    /\ farm = [h \in Hosts |-> 1]
    /\ custom_mapper = "None"
    /\ awsec2f1 \in BindingCases
    /\ user_hwcfg = {}
    /\ user_netp = {}
    /\ FreshFields

\* the manager calls entry point e on the object its constructor returned
StartEntry(e) ==
    /\ constructed /\ ppc = "idle" /\ pc = "idle"
    /\ entry' = e
    /\ use_mock' \in BOOLEAN
    /\ has_hook' \in BOOLEAN
    /\ log_to_file' \in (IF e = "runworkload" THEN BOOLEAN ELSE {TRUE})
    \* a kill run finds whatever an earlier boot left on the hosts
    /\ screens_up' \in (IF e = "kill" THEN SUBSET Hosts ELSE {{}})
    /\ pc' = "run"
    /\ todo' = EntrySteps(e, use_mock')
    /\ UNCHANGED <<roots, trace, cur, pending, failed, ran, finished, instancestates,
                   jobs_complete_dict, loop_state, completed, screen_ls, pvars>>

Next ==
    \/ Construct
    \/ Passes
    \/ \E e \in EntryPoints : StartEntry(e)
    \/ LocalOk
    \/ LocalFail
    \/ Dispatch
    \/ \E h \in Hosts : HostOk(h)
    \/ \E h \in Hosts : HostFail(h)
    \/ JoinOk
    \/ JoinAbort
    \/ Decide
    \/ Return
    \/ \E s \in Sims : SimCompletes(s)
    \/ \E h \in Hosts : ScreensExit(h)

Spec == Init /\ [][Next]_vars

\* ------------------------------------------------------------ properties
PosK(k) == {i \in 1..Len(trace) : trace[i].k = k}

Started(h, k)  == \E st \in ran[h] : st.k = k
Finished(h, k) == \E st \in finished[h] : st.k = k

KillOps == {"kill_switch_wrapper", "kill_simulation_wrapper"}

\* C4: the simulation boot starts on a host only when the switch boot has
\* succeeded on every host.
C4_SwitchBootBarrier ==
    \A h \in Hosts :
        Started(h, "boot_simulation_wrapper") =>
            \A g \in Hosts : Finished(g, "boot_switch_wrapper")

\* C4 witness: in a boot run the simulation boot has started on some host
\* and not yet on another
C4_Witness ==
    /\ entry = "boot"
    /\ \E h, g \in Hosts :
          /\ Started(h, "boot_simulation_wrapper")
          /\ ~Started(g, "boot_simulation_wrapper")

\* C5: the simulation kill starts on a host only when the switch kill has
\* been dispatched to and has succeeded on every host.
C5_KillSwitchBarrier ==
    \A h \in Hosts :
        Started(h, "kill_simulation_wrapper") =>
            \A g \in Hosts : Finished(g, "kill_switch_wrapper")

\* C5 witness: in a kill run the simulation kill has started on some host
\* and not yet on another
C5_Witness ==
    /\ entry = "kill"
    /\ \E h, g \in Hosts :
          /\ Started(h, "kill_simulation_wrapper")
          /\ ~Started(g, "kill_simulation_wrapper")

\* C6: in every entry point, a setup, boot or kill operation starts on a
\* host only when the liveness check has succeeded on every host.
C6_LivenessBeforeWork ==
    \A h \in Hosts :
        (\E k \in WorkOps : Started(h, k)) =>
            \A g \in Hosts : Finished(g, "instance_liveness")

\* C7: when the liveness check has failed on a host, no setup, boot or kill
\* operation (nor any other remote operation) has been started on any host,
\* and once the batch is joined the entry point has aborted.
LivenessFailed(h) == Started(h, "instance_liveness") /\ ~Finished(h, "instance_liveness")

C7_LivenessFailureAborts ==
    (\E h \in Hosts : LivenessFailed(h)) =>
        /\ \A g \in Hosts : \A st \in ran[g] : st.k = "instance_liveness"
        /\ pc # "returned"
        /\ pc = "aborted" \/ cur.k = "instance_liveness"
        /\ todo # <<>> /\ Head(todo).k = "instance_liveness"

\* C7 witness: the liveness check failed on one host and succeeded on
\* another, and the entry point has aborted
C7_Witness ==
    /\ pc = "aborted"
    /\ \E h, g \in Hosts : LivenessFailed(h) /\ Finished(g, "instance_liveness")

\* C8: during one run_workload_passes the inventory is bound at most once,
\* and exactly once when it returns.
Bindings == Cardinality({i \in 1..Len(trace) : trace[i].k \in BindOps})

C8_BoundOnce ==
    entry = "runworkload" =>
        /\ Bindings <= 1
        /\ pc = "returned" => Bindings = 1


\* C9: a call of pass_compute_switching_tables while passes_used does not
\* hold pass_assign_mac_addresses raises the assertion error at once and
\* leaves passes_used, every downlinkmacs and every switch_table as they
\* were; so the pass is only ever recorded after the address assignment.
C9_CallBeforeMacs ==
    /\ ppc = "running" /\ ptodo # <<>>
    /\ Head(ptodo) = "pass_compute_switching_tables"
    /\ "pass_assign_mac_addresses" \notin Range(passes_used)

C9_DependencyFailsFast ==
    /\ [][C9_CallBeforeMacs =>
            /\ ppc' = "raised" /\ error' = "AssertionError"
            /\ passes_used' = passes_used
            /\ downlinkmacs' = downlinkmacs
            /\ switch_table' = switch_table]_vars
    /\ [](\A i \in 1..Len(passes_used) :
            passes_used[i] = "pass_compute_switching_tables" =>
                \E j \in 1..(i - 1) : passes_used[j] = "pass_assign_mac_addresses")

\* C9 witness: the pass was called first on a topology with a switch above a
\* server and raised; nothing is recorded or written
C9_Witness ==
    /\ ppc = "raised" /\ error = "AssertionError"
    /\ ptodo # <<>> /\ Head(ptodo) = "pass_compute_switching_tables"
    /\ passes_used = <<>>
    /\ \E n \in Nodes : IsServer(n) /\ topo.parent[n] # 0
    /\ \A n \in Nodes : downlinkmacs[n] = <<>> /\ switch_table[n] = NoTable

\* C10: the passes __init__ has started are always a prefix of the canonical
\* phase-one order, up to its end nothing is bound or dispatched to a host,
\* and all eight have been started when the construction is over, on an
\* input that gives no pass a reason to fail: every switch has a downlink,
\* the mapper is the topology's own function and the run farm is an AWSEC2F1.
CanonicalPhaseOne ==
    <<"pass_assign_mac_addresses", "pass_compute_switching_tables",
      "pass_perform_host_node_mapping", "pass_apply_default_hwconfig",
      "pass_apply_default_network_params", "pass_assign_jobs",
      "pass_allocate_nbd_devices", "pass_create_topology_diagram">>

C10_PhaseOneOrder ==
    /\ Len(calls) <= Len(CanonicalPhaseOne)
    /\ calls = SubSeq(CanonicalPhaseOne, 1, Len(calls))
    /\ constructed => calls = CanonicalPhaseOne
    /\ (/\ in_init /\ ppc = "raised"
        /\ custom_mapper = "callable" /\ awsec2f1 # "is_not"
        /\ \A n \in Nodes : IsSwitch(n) => Downlinks(n) # <<>>)
          => calls = CanonicalPhaseOne
    /\ ppc = "running" /\ in_init => ptodo = SubSeq(CanonicalPhaseOne, Len(calls) + 1, 8)
    /\ trace = <<>>
    /\ \A h \in Hosts : ran[h] = {}

\* C11: once pass_assign_mac_addresses has run, also a second time, the k-th
\* server of the DFS order holds address k - 1: the addresses are one per
\* server, distinct, and exactly 0..n-1, and the allocator stands at n.
C11_MacsFollowDfsOrder ==
    MacsAssigned =>
        LET servers == get_dfs_order_servers
            n == Len(servers)
        IN  /\ \A k \in 1..n : mac[servers[k]] = k - 1
            /\ \A a, b \in Nodes : IsServer(a) /\ IsServer(b) /\ a # b => mac[a] # mac[b]
            /\ {mac[s] : s \in {x \in Nodes : IsServer(x)}} = 0..(n - 1)
            /\ \A s \in Nodes : IsSwitch(s) => mac[s] = NoMac
            /\ next_mac = n

\* C11 witness: the pass has run twice over a topology of two servers or more
C11_Witness ==
    /\ passes_used = <<"pass_assign_mac_addresses", "pass_assign_mac_addresses">>
    /\ ppc = "idle"
    /\ Len(get_dfs_order_servers) >= 2
    /\ mac[get_dfs_order_servers[2]] = 1


\* pass_compute_switching_tables has run and every run of it has returned
TablesComputed ==
    /\ "pass_compute_switching_tables" \in Range(passes_used)
    /\ ~(ppc = "raised" /\ Head(ptodo) = "pass_compute_switching_tables")

\* node m stands in the subtree of node c
RECURSIVE InSubtree(_, _)
InSubtree(m, c) ==
    \/ m = c
    \/ topo.parent[m] # 0 /\ InSubtree(topo.parent[m], c)

\* C12: after pass_compute_switching_tables, a server's downlinkmacs is its
\* own address alone, the downlinkmacs of a switch hold every address of the
\* downlinkmacs of each of its downlinks, and in a tree with one root switch
\* the root's downlinkmacs are the addresses 0..next_mac-1.
C12_DownlinkMacsPropagate ==
    TablesComputed =>
        /\ \A s \in Nodes : IsServer(s) => downlinkmacs[s] = <<mac[s]>>
        /\ \A n \in Nodes : IsSwitch(n) =>
              \A i \in 1..Len(Downlinks(n)) :
                  Range(downlinkmacs[Downlinks(n)[i]]) \subseteq Range(downlinkmacs[n])
        /\ Len(TopoRoots) = 1 /\ IsSwitch(TopoRoots[1]) =>
              Range(downlinkmacs[TopoRoots[1]]) = 0..(next_mac - 1)

\* C12 witness: the pass has returned on a root switch above a switch above
\* a server, or above two servers
C12_Witness ==
    /\ TablesComputed /\ ppc = "idle"
    /\ Len(TopoRoots) = 1 /\ IsSwitch(TopoRoots[1])
    /\ \/ \E c \in Nodes : IsSwitch(c) /\ topo.parent[c] = TopoRoots[1]
                           /\ downlinkmacs[c] # <<>>
       \/ Len(downlinkmacs[TopoRoots[1]]) >= 2

\* C13: after pass_compute_switching_tables the table of every switch has
\* one entry per allocated address; the entry of address a is the index of
\* the downlink below which the server holding a stands, and the uplink port
\* number, the number of downlinks, when a stands below no downlink.
C13_SwitchTableEntries ==
    TablesComputed =>
        \A n \in Nodes : IsSwitch(n) =>
            /\ Len(switch_table[n]) = next_mac
            /\ \A a \in 0..(next_mac - 1) :
                  LET ch == Downlinks(n)
                      ports == {p \in 0..(Len(ch) - 1) :
                                   \E s \in Nodes : /\ IsServer(s) /\ mac[s] = a
                                                    /\ InSubtree(s, ch[p + 1])}
                  IN  IF ports = {}
                      THEN switch_table[n][a + 1] = Len(ch)
                      ELSE switch_table[n][a + 1] \in ports /\ Cardinality(ports) = 1

\* C13 witness: a computed table with an address on a downlink port and an
\* address on the uplink port
C13_Witness ==
    /\ TablesComputed /\ ppc = "idle"
    /\ \E n \in Nodes :
          /\ IsSwitch(n)
          /\ \E a, b \in 1..next_mac :
                /\ switch_table[n][a] = Len(Downlinks(n))
                /\ switch_table[n][b] < Len(Downlinks(n))


\* the mapping pass has run strategy name, once
MapRan(name) == mapped_by = <<name>> /\ ppc \in {"idle", "raised"}
MapReturned(name) == mapped_by = <<name>> /\ ppc = "idle"

FpgaHosts == {h \in FarmHosts : farm[h] > 0}

RECURSIVE SumCap(_)
SumCap(hs) ==
    IF hs = {} THEN 0
    ELSE LET h == CHOOSE x \in hs : TRUE IN farm[h] + SumCap(hs \ {h})

TotalCap == SumCap(FpgaHosts)

\* the slots of the hosts filled before host h: those of larger capacity and
\* those of equal capacity that stand earlier in the inventory
FilledBefore(h) ==
    SumCap({g \in FpgaHosts : farm[g] > farm[h] \/ (farm[g] = farm[h] /\ g < h)})

\* the servers that fall to host h
ShareOf(h) ==
    LET servers == get_dfs_order_servers
        lo == FilledBefore(h) + 1
        hi == IF FilledBefore(h) + farm[h] <= Len(servers)
              THEN FilledBefore(h) + farm[h] ELSE Len(servers)
    IN  IF lo > hi THEN <<>> ELSE SubSeq(servers, lo, hi)

\* C14: pass_no_net_host_mapping fills the accelerator hosts by descending
\* capacity, equal capacities in inventory order, with the servers in DFS
\* order, a host taking servers only when the hosts before it are full; when
\* the slots suffice it returns with every server on exactly one host.
C14_NoNetPacking ==
    MapRan("pass_no_net_host_mapping") =>
        /\ \A h \in FarmHosts : fpga_slots[h] = ShareOf(h) /\ switch_slots[h] = <<>>
        /\ Len(get_dfs_order_servers) >= 1 /\ TotalCap >= Len(get_dfs_order_servers) =>
              /\ ppc = "idle"
              /\ \A s \in Nodes : IsServer(s) =>
                    /\ host_instance[s] \in FpgaHosts
                    /\ \A h \in FarmHosts :
                          s \in Range(fpga_slots[h]) <=> h = host_instance[s]

\* C15: with more servers than accelerator slots pass_no_net_host_mapping
\* raises the assertion error of line 205, and it never returns with a
\* server that has no host.
C15_NoNetExhaustion ==
    /\ MapRan("pass_no_net_host_mapping") /\ Len(get_dfs_order_servers) > TotalCap =>
          ppc = "raised" /\ error = "AssertionError"
    /\ MapReturned("pass_no_net_host_mapping") =>
          \A s \in Nodes : IsServer(s) => host_instance[s] # 0

\* the downlinks of switch sw that the simple networked strategy looks at
RealDownlinks(sw) == {c \in Nodes : topo.parent[c] = sw /\ ~IsDummy(c)}
SwitchOfServersOnly(sw) ==
    /\ IsSwitch(sw) /\ RealDownlinks(sw) # {}
    /\ \A c \in RealDownlinks(sw) : IsServer(c)
SwitchOfSwitchesOnly(sw) ==
    /\ IsSwitch(sw) /\ RealDownlinks(sw) # {}
    /\ \A c \in RealDownlinks(sw) : IsSwitch(c)
MixedDownlinks(sw) ==
    /\ IsSwitch(sw)
    /\ \E c \in RealDownlinks(sw) : IsSwitch(c)
    /\ \E c \in RealDownlinks(sw) : IsServer(c)

\* the hosts whose slots hold node n
HoldersOf(n) ==
    {h \in FarmHosts : n \in Range(switch_slots[h]) \/ n \in Range(fpga_slots[h])}

\* C17: after pass_simple_networked_host_node_mapping a switch whose
\* downlinks (dummies aside) are all servers stands, with those servers, in
\* the slots of one accelerator host at most, a host with as many slots as
\* servers, and it is the host_instance of all of them.
C17_ServersSwitchOnOneHost ==
    MapReturned("pass_simple_networked_host_node_mapping") =>
        \A sw \in Nodes : SwitchOfServersOnly(sw) =>
            LET group == {sw} \cup RealDownlinks(sw)
                holders == UNION {HoldersOf(n) : n \in group}
            IN  /\ Cardinality(holders) <= 1
                /\ \A h \in holders :
                      /\ is_fpga_node(h)
                      /\ get_num_fpga_slots_max(h) >= Cardinality(RealDownlinks(sw))
                      /\ \A n \in group : host_instance[n] = h /\ HoldersOf(n) = {h}

\* C18: after pass_simple_networked_host_node_mapping a switch whose
\* downlinks (dummies aside) are all switches stands in the switch slots of
\* one host at most, a host without accelerator slots, which is its
\* host_instance.
C18_SwitchesSwitchOnOneHost ==
    MapReturned("pass_simple_networked_host_node_mapping") =>
        \A sw \in Nodes : SwitchOfSwitchesOnly(sw) =>
            /\ Cardinality(HoldersOf(sw)) <= 1
            /\ \A h \in HoldersOf(sw) : is_switch_node(h) /\ host_instance[sw] = h

\* C19: pass_simple_networked_host_node_mapping raises the assertion error of
\* line 236 exactly when some switch has, dummies aside, a switch and a server
\* among its downlinks.
C19_MixedDownlinksError ==
    MapRan("pass_simple_networked_host_node_mapping") =>
        ((ppc = "raised" /\ error = "AssertionError")
            <=> \E sw \in Nodes : MixedDownlinks(sw))

\* the inventory has no switch-only host for a switch of switches, or no
\* accelerator host with a slot for every server of a switch of servers
NoHostFor(sw) ==
    \/ /\ SwitchOfSwitchesOnly(sw)
       /\ \A h \in FarmHosts : ~is_switch_node(h)
    \/ /\ SwitchOfServersOnly(sw)
       /\ \A h \in FarmHosts :
             ~(is_fpga_node(h) /\ get_num_fpga_slots_max(h) >= Cardinality(RealDownlinks(sw)))

C21_EverythingOnOneHost ==
    /\ MapReturned("mapping_use_one_fpga_node") =>
          \A n \in Nodes :
              (IsSwitch(n) \/ (topo.kind[n] = "server" /\ topo.parent[n] # 0)) =>
                  /\ host_instance[n] # 0
                  /\ is_fpga_node(host_instance[n])
                  /\ HoldersOf(n) = {host_instance[n]}
                  /\ \A m \in Nodes : IsSwitch(m) => host_instance[m] = host_instance[n]
    /\ MapRan("mapping_use_one_fpga_node") =>
          ((\E sw \in Nodes : \E c, d \in Nodes :
                /\ topo.parent[c] = sw /\ topo.parent[d] = sw
                /\ IsSwitch(c) /\ IsServer(d))
              => ppc = "raised")

\* the mapping pass has been called and has returned or raised
MapCalled == ndirect = 1 /\ ppc \in {"idle", "raised"}

\* C22: one call of pass_perform_host_node_mapping runs one strategy at
\* most: the topology's mapper function when custom_mapper is callable, the
\* method of that name when it is a string, and with no custom_mapper
\* pass_no_net_host_mapping when every root is a server and
\* pass_simple_networked_host_node_mapping otherwise; with any other
\* custom_mapper, or a name that is no method, it raises and runs none.
\* (The run farm is an AWSEC2F1, as the assertion of line 268 wants it.)
C22_OneStrategyPerCall ==
    /\ Len(mapped_by) <= 1
    /\ MapCalled /\ awsec2f1 # "is_not" =>
          /\ custom_mapper = "callable" => mapped_by = <<"callable">>
          /\ custom_mapper \in Strategies => mapped_by = <<custom_mapper>>
          /\ custom_mapper = "None" =>
                mapped_by = <<IF \A n \in Nodes : topo.parent[n] = 0 => topo.kind[n] = "server"
                              THEN "pass_no_net_host_mapping"
                              ELSE "pass_simple_networked_host_node_mapping">>
          /\ custom_mapper \in {"improper", "no_such_method"} =>
                /\ mapped_by = <<>>
                /\ ppc = "raised"
                /\ error = IF custom_mapper = "improper" THEN "AssertionError"
                           ELSE "AttributeError"
                /\ \A h \in FarmHosts : fpga_slots[h] = <<>> /\ switch_slots[h] = <<>>
                /\ \A n \in Nodes : host_instance[n] = 0

\* the config pass_apply_default_hwconfig leaves for a server whose field is c
ResolvedFrom(c) ==
    IF c = NoCfg THEN [resolved |-> TRUE, name |-> defaulthwconfig]
    ELSE IF ~c.resolved THEN [resolved |-> TRUE, name |-> c.name]
    ELSE c

\* C23: a run of pass_apply_default_hwconfig leaves every server with a
\* resolved config: the default one when it had none, the registry's config
\* of that name when it had a name, its own when it was resolved already, so
\* a second run leaves hwcfg as it was; every config object was asked for its
\* triplet once per server and run, and its triplet was built once at most.
C23_HwConfigResolvedOnce ==
    /\ [][(ppc = "running" /\ ptodo # <<>> /\ Head(ptodo) = "pass_apply_default_hwconfig") =>
            /\ ppc' = "idle"
            /\ \A s \in Nodes : IsServer(s) =>
                  /\ hwcfg'[s] = ResolvedFrom(hwcfg[s])
                  /\ hwcfg'[s].resolved /\ hwcfg'[s].name \in HwNames
            /\ \A s \in Nodes : IsSwitch(s) => hwcfg'[s] = hwcfg[s]
            /\ (\A s \in Nodes : IsServer(s) => hwcfg[s].resolved) =>
                  /\ hwcfg' = hwcfg
                  /\ \A c \in HwNames : triplet_calls'[c].builds = triplet_calls[c].builds
            /\ \A c \in HwNames :
                  triplet_calls'[c].calls = triplet_calls[c].calls
                      + Cardinality({s \in Nodes : IsServer(s) /\ ResolvedFrom(hwcfg[s]).name = c})]_vars
    /\ [](\A c \in HwNames :
            /\ triplet_calls[c].builds <= 1
            /\ triplet_calls[c].builds = 1 <=> triplet_calls[c].calls >= 1)

\* C23 witness: the pass has run twice over a server that named its config
\* and a server that had none
C23_Witness ==
    /\ ppc = "idle" /\ ndirect = 2
    /\ triplet_calls["user_cfg"] = [calls |-> 2, builds |-> 1]
    /\ triplet_calls["default_cfg"].calls >= 2
    /\ triplet_calls["default_cfg"].builds = 1
    /\ \E s \in Nodes : hwcfg[s] = [resolved |-> TRUE, name |-> "user_cfg"]
    /\ \E s \in Nodes : hwcfg[s] = [resolved |-> TRUE, name |-> "default_cfg"]


\* C24: a run of pass_apply_default_network_params gives the default to the
\* fields that are None and to no other field, so that afterwards no field
\* of a switch or server is None and a further run changes nothing; a field
\* the user topology has set keeps the user's value through every pass.
C24_DefaultsOnlyWhereUnset ==
    /\ [][(ppc = "running" /\ ptodo # <<>>
              /\ Head(ptodo) = "pass_apply_default_network_params") =>
            /\ ppc' = "idle"
            /\ \A n \in Nodes : \A f \in DOMAIN netp[n] :
                  /\ netp[n][f] = "None" => netp'[n][f] = "default"
                  /\ netp[n][f] # "None" => netp'[n][f] = netp[n][f]
                  /\ netp'[n][f] # "None"
            /\ (\A n \in Nodes : \A f \in DOMAIN netp[n] : netp[n][f] # "None")
                  => netp' = netp]_vars
    /\ [](\A n \in Nodes :
            /\ DOMAIN netp[n] = (IF IsSwitch(n) THEN SwitchFields ELSE ServerFields)
            /\ n \in user_netp =>
                  netp[n][IF IsSwitch(n) THEN "switch_link_latency"
                          ELSE "server_link_latency"] = "user")

\* C24 witness: after two calls the node the user configured holds the
\* user's link latency and defaults elsewhere, next to a node that holds
\* defaults only
C24_Witness ==
    /\ ppc = "idle" /\ ndirect = 2
    /\ user_netp # {}
    /\ \A n \in user_netp :
          \A f \in DOMAIN netp[n] :
              netp[n][f] = IF f \in {"switch_link_latency", "server_link_latency"}
                           THEN "user" ELSE "default"
    /\ \E n \in Nodes \ user_netp : \A f \in DOMAIN netp[n] : netp[n][f] = "default"


\* C25: once the constructor has started pass_create_topology_diagram and
\* that pass is over, with or without a rendered diagram, the constructor
\* has returned and the object holds the results of the seven passes before.
C25_DiagramFailureTolerated ==
    (Len(calls) = 8 /\ ppc \in {"idle", "raised"}) =>
        /\ constructed
        /\ ppc = "idle"
        /\ MacsAssigned
        /\ \A n \in Nodes : IsSwitch(n) => switch_table[n] # NoTable
        /\ \A n \in Nodes : IsServer(n) =>
              hwcfg[n].resolved /\ job[n] # NoJob /\ n \in nbds


\* C26: in run_workload_passes the post-run hook is started once at most,
\* only with the loop DONE and after the last status query, once exactly
\* when the workload has a hook and the run returns; and a run whose hook
\* has been started does not end in an exception.
C26_HookOnceNonFatal ==
    entry = "runworkload" =>
        /\ Cardinality(PosK("post_run_hook")) <= 1
        /\ \A i \in PosK("post_run_hook") :
              /\ has_hook /\ loop_state = "DONE"
              /\ \A j \in PosK("monitor_jobs_wrapper") : j < i
        /\ ~has_hook => PosK("post_run_hook") = {}
        /\ pc = "returned" /\ has_hook => Cardinality(PosK("post_run_hook")) = 1
        /\ PosK("post_run_hook") # {} => pc # "aborted"

\* C27: run_workload_passes reports success, by its final log line and by
\* returning, only when every simulation has completed.
C27_OutcomeTellsCompletion ==
    entry = "runworkload" =>
        /\ PosK("log_exited_successfully") # {} => completed = Sims
        /\ pc = "returned" => completed = Sims

\* C28: a batch in which some host failed is the last thing the entry point
\* starts: it is not dispatched again, no later batch or local step starts,
\* the entry point ends in the exception, and in particular no simulation
\* boot follows a failed switch boot, no simulation kill a failed switch
\* kill, and no further status query or kill a failed status query.
C28_DispatchFailureFatal ==
    /\ [](failed # {} =>
            /\ pc # "returned"
            /\ todo # <<>> /\ trace # <<>>
            /\ trace[Len(trace)] = Head(todo)
            /\ Head(todo).k \in RemoteOps
            /\ cur = NoBatch => pc = "aborted"
            /\ Head(todo).k = "boot_switch_wrapper" =>
                  /\ Cardinality(PosK("boot_switch_wrapper")) = 1
                  /\ \A h \in Hosts : ~Started(h, "boot_simulation_wrapper")
            /\ Head(todo).k = "kill_switch_wrapper" =>
                  /\ Cardinality(PosK("kill_switch_wrapper")) = 1
                  /\ \A h \in Hosts : ~Started(h, "kill_simulation_wrapper")
            /\ Head(todo) = S("monitor_jobs_wrapper", FALSE) =>
                  \A h \in Hosts : \A k \in KillOps : ~Started(h, k))
    /\ [][pc = "aborted" => pc' = "aborted" /\ trace' = trace /\ ran' = ran]_vars

\* C28 witness: the switch boot failed on one host and succeeded on another,
\* and the entry point has ended in the exception
C28_Witness ==
    /\ pc = "aborted"
    /\ todo # <<>> /\ Head(todo).k = "boot_switch_wrapper"
    /\ \E h, g \in Hosts :
          /\ h \in failed
          /\ Finished(g, "boot_switch_wrapper")

\* C30: with no custom_mapper, the monitor tears down (teardown_required)
\* exactly when the mapping pass has run the simple networked strategy, that
\* is exactly when some root is not a server.
C30_MonitorAgreesWithMapping ==
    (custom_mapper = "None" /\ MapCalled) =>
        /\ teardown_required <=> mapped_by = <<"pass_simple_networked_host_node_mapping">>
        /\ teardown_required <=> (\E n \in Nodes : topo.parent[n] = 0 /\ ~IsServer(n))

====
